---- MODULE Spec2Model ----
(***************************************************************************)
(* The recipe book backend of server.js: the recipes table, the thumbnail  *)
(* directory, and the add-recipe, update-recipe and delete-recipe          *)
(* handlers.  Every handler is cut at its asynchronous boundaries (an      *)
(* await, a database callback, the unlink callback), so that the steps of  *)
(* concurrent requests interleave as the event loop interleaves them.      *)
(***************************************************************************)
EXTENDS Integers, FiniteSets, Sequences, TLC

\* Number of requests a behaviour receives.
MaxReqs == 2
\* Largest number of rows the database holds at start.
MaxInitRows == 1
\* Largest id a request names.
MaxId == 1
\* Number of requests a behaviour receives where termination is checked.
MaxLiveReqs == 1

ReqIds == 1..MaxReqs

\* A field the request does not carry (req.body.x is undefined).
Undefined == "undefined"
\* Texts a create request may carry as title or recipe.
AddTexts == {Undefined, "", "Soup"}
\* Texts an edit request may carry as title or recipe.
EditTexts == {Undefined, "", "Stew"}
\* req.body.id is missing or empty.
NoId == 0
\* req.file is undefined; as a thumbnail value, null.
NoFile == 0
\* this.changes before the statement has run.
NotRun == -1
\* No response sent yet.
NoStatus == 0

VARIABLES
    table,    \* the recipes table: id -> [title, recipe, thumbnail]
    lastID,   \* the AUTOINCREMENT sequence of the table
    files,    \* names of the files in public/assets/images/thumbnail
    fileSeq,  \* number of filenames multer has generated
    reqs      \* the requests: inputs, handler position and locals, response

vars == <<table, lastID, files, fileSeq, reqs>>

----------------------------------------------------------------------------
\* Validation (src/validation/backend.js)

\* yup string().required(): undefined, null and "" are rejected.
required(v) == v # Undefined /\ v # ""

\* storeRecipe.validate(..., {abortEarly: false}) followed, when it throws, by
\* transformYupErrorsIntoObject: the paths of the fields that failed ({} when
\* the record is valid).
storeRecipe(title, recipe, thumbnail) ==
    {p \in {"title"} : ~required(title)}
        \cup {p \in {"recipe"} : ~required(recipe)}
        \cup {p \in {"thumbnail"} : thumbnail = NoFile}

\* errors([title, recipe], true): the edit form's check, TRUE when it
\* reports no error.  trim() of a missing field is taken as empty.
errorsEdit(title, recipe) == required(title) \/ required(recipe)

\* editRecipe with the edit form's rule: one of title and recipe is enough.
editRecipeEither(id, title, recipe) ==
    {p \in {"id"} : id = NoId}
        \cup {p \in {"title", "recipe"} : ~errorsEdit(title, recipe)}

\* editRecipe.validate({id, title, recipe}, {abortEarly: false}), likewise;
\* the nullable thumbnail is never passed and never fails.
editRecipe(id, title, recipe) ==
    {p \in {"id"} : id = NoId}
        \cup {p \in {"title"} : ~required(title)}
        \cup {p \in {"recipe"} : ~required(recipe)}

----------------------------------------------------------------------------
\* File store

\* filename() giving an upload the name of the one before it.
filenameCollides(seq) == IF seq = 0 THEN 1 ELSE seq

\* multer's filename(): a name no earlier upload has.
filename(seq) == seq + 1

\* upload.single("thumbnail"): the name stored in req.file.
uploaded(hasFile, seq) == IF hasFile THEN filename(seq) ELSE NoFile

\* What fs.unlink can answer for a file of the directory.
unlinkCodes(fs, f) == {IF f \in fs THEN "ok" ELSE "ENOENT", "EACCES"}

\* deleteFile rejecting on ENOENT too.
deleteFileRejectsMissing(code) == code # "ok"

\* deleteFile rejects on every error but ENOENT.
deleteFileRejects(code) == code # "ok" /\ code # "ENOENT"

\* The directory after fs.unlink answered code.
unlinked(fs, f, code) == IF code = "ok" THEN fs \ {f} ELSE fs

----------------------------------------------------------------------------
\* Recipe store: the SQL statements

Found(tbl, id) == id \in DOMAIN tbl

InsertRow(tbl, id, title, recipe, thumbnail) ==
    [i \in DOMAIN tbl \cup {id} |->
        IF i = id THEN [title |-> title, recipe |-> recipe, thumbnail |-> thumbnail]
        ELSE tbl[i]]

UpdateRow(tbl, id, title, recipe, thumbnail) ==
    [i \in DOMAIN tbl |->
        IF i = id THEN [title |-> title, recipe |-> recipe, thumbnail |-> thumbnail]
        ELSE tbl[i]]

\* A DELETE whose WHERE clause matches no row.
DeleteRowNoMatch(tbl, id) == tbl

DeleteRow(tbl, id) == [i \in DOMAIN tbl \ {id} |-> tbl[i]]

\* this.changes of an UPDATE or DELETE ... WHERE id = ?
Changes(tbl, id) == IF Found(tbl, id) THEN 1 ELSE 0

----------------------------------------------------------------------------
\* Requests

Idle ==
    [kind |-> "none", pc |-> "idle", id |-> NoId, title |-> Undefined,
     recipe |-> Undefined, file |-> NoFile, thumbnail |-> NoFile,
     unlink |-> "none", changes |-> NotRun,
     status |-> NoStatus, error |-> {}, nresp |-> 0]

\* res.status(code).json(...): the response leaves and the handler ends; of
\* the request only what it named, what it uploaded and the answer remain.
respond(q, statusCode) ==
    [Idle EXCEPT !.kind = q.kind, !.pc = "done", !.id = q.id, !.file = q.file,
                 !.status = statusCode, !.nresp = q.nresp + 1]

\* sendErrorResponse that logs the message and ends without answering.
sendErrorResponseUnsent(q, statusCode, message) ==
    [respond(q, statusCode) EXCEPT !.error = message, !.nresp = q.nresp]

\* sendErrorResponse(res, statusCode, message): the body is {error: message},
\* where message is a set: the failed fields of a validation, or the one
\* string of any other error.
sendErrorResponse(q, statusCode, message) ==
    [respond(q, statusCode) EXCEPT !.error = message]

\* recipes.db and the thumbnail directory outlive the process (CREATE TABLE
\* IF NOT EXISTS): the server starts on what earlier successful creates left.
Init ==
    /\ \E n \in 0..MaxInitRows :
        /\ table = [i \in 1..n |-> [title |-> "Soup", recipe |-> "Soup", thumbnail |-> i]]
        /\ lastID = n
        /\ files = 1..n
        /\ fileSeq = n
    /\ reqs = [r \in ReqIds |-> Idle]

\* Requests arrive in the order of their numbers.
CanReceive(r) ==
    /\ reqs[r].pc = "idle"
    /\ IF r = 1 THEN TRUE ELSE reqs[r - 1].pc # "idle"

\* POST /add-recipe arrives; multer stores the file before the handler runs.
ReceiveAdd(r) ==
    /\ CanReceive(r)
    /\ \E hasFile \in BOOLEAN :
        LET f == uploaded(hasFile, fileSeq) IN
        /\ reqs' = [reqs EXCEPT ![r] =
               [Idle EXCEPT !.kind = "add", !.pc = "validate", !.file = f]]
        /\ files' = IF hasFile THEN files \cup {f} ELSE files
        /\ fileSeq' = IF hasFile THEN fileSeq + 1 ELSE fileSeq
    /\ UNCHANGED <<table, lastID>>

\* The handler reads req.body; await storeRecipe.validate(...): 400 with the
\* mapping of the failed fields from the catch, or the INSERT is issued.
AddValidate(r) ==
    /\ reqs[r].kind = "add" /\ reqs[r].pc = "validate"
    /\ \E title \in AddTexts, recipe \in AddTexts :
        LET failed == storeRecipe(title, recipe, reqs[r].file) IN
        reqs' = [reqs EXCEPT ![r] =
            IF failed = {}
            THEN [@ EXCEPT !.pc = "insert", !.title = title, !.recipe = recipe]
            ELSE sendErrorResponse(@, 400, failed)]
    /\ UNCHANGED <<table, lastID, files, fileSeq>>

\* stmt.run(INSERT ...) and its callback.
AddInsert(r) ==
    /\ reqs[r].kind = "add" /\ reqs[r].pc = "insert"
    /\ \E err \in BOOLEAN :
        IF err
        THEN /\ reqs' = [reqs EXCEPT ![r] =
                    sendErrorResponse(@, 500, {"Error inserting recipe into DB"})]
             /\ UNCHANGED <<table, lastID>>
        ELSE /\ table' = InsertRow(table, lastID + 1, reqs[r].title, reqs[r].recipe, reqs[r].file)
             /\ lastID' = lastID + 1
             /\ reqs' = [reqs EXCEPT ![r] = [@ EXCEPT !.id = lastID + 1, !.pc = "reselect"]]
    /\ UNCHANGED <<files, fileSeq>>

\* db.get(SELECT * ... WHERE id = insertedId) and its callback.
AddReselect(r) ==
    /\ reqs[r].kind = "add" /\ reqs[r].pc = "reselect"
    /\ \E err \in BOOLEAN :
        reqs' = [reqs EXCEPT ![r] =
            IF err THEN sendErrorResponse(@, 500, {"Error retrieving inserted recipe"})
            ELSE respond(@, 201)]
    /\ UNCHANGED <<table, lastID, files, fileSeq>>

\* POST /delete-recipe arrives with a JSON body; the handler runs at once up
\* to db.get: if (!id) 400, otherwise the SELECT is issued.
ReceiveDelete(r) ==
    /\ CanReceive(r)
    /\ \E id \in {NoId} \cup (1..MaxId) :
        LET q == [Idle EXCEPT !.kind = "delete", !.id = id] IN
        reqs' = [reqs EXCEPT ![r] =
            IF id = NoId THEN sendErrorResponse(q, 400, {"ID is required"})
            ELSE [q EXCEPT !.pc = "select"]]
    /\ UNCHANGED <<table, lastID, files, fileSeq>>

\* Callback of db.get(SELECT thumbnail ...): 500, 404, or deleteFile is called.
DeleteSelect(r) ==
    /\ reqs[r].kind = "delete" /\ reqs[r].pc = "select"
    /\ \E err \in BOOLEAN :
        reqs' = [reqs EXCEPT ![r] =
            IF err THEN sendErrorResponse(@, 500, {"Error retrieving record"})
            ELSE IF ~Found(table, @.id) THEN sendErrorResponse(@, 404, {"Recipe not found"})
            ELSE [@ EXCEPT !.thumbnail = table[reqs[r].id].thumbnail, !.pc = "unlink"]]
    /\ UNCHANGED <<table, lastID, files, fileSeq>>

\* fs.unlink(filePath) runs on the thread pool of request r, for a delete or
\* for the old thumbnail of an update; its callback is due.
Unlink(r) ==
    /\ reqs[r].pc = "unlink"
    /\ \E code \in unlinkCodes(files, reqs[r].thumbnail) :
        /\ files' = unlinked(files, reqs[r].thumbnail, code)
        /\ reqs' = [reqs EXCEPT ![r] = [@ EXCEPT !.unlink = code, !.pc = "unlinked"]]
    /\ UNCHANGED <<table, lastID, fileSeq>>

\* await deleteFile(filePath) settles: the catch answers 500, otherwise the
\* DELETE is issued.
DeleteUnlinked(r) ==
    /\ reqs[r].kind = "delete" /\ reqs[r].pc = "unlinked"
    /\ reqs' = [reqs EXCEPT ![r] =
           IF deleteFileRejects(@.unlink)
           THEN sendErrorResponse(@, 500, {"Error deleting associated file"})
           ELSE [@ EXCEPT !.pc = "delete"]]
    /\ UNCHANGED <<table, lastID, files, fileSeq>>

\* stmt.run(DELETE ...) and its callback.
DeleteRun(r) ==
    /\ reqs[r].kind = "delete" /\ reqs[r].pc = "delete"
    /\ \E err \in BOOLEAN :
        IF err
        THEN /\ reqs' = [reqs EXCEPT ![r] = sendErrorResponse(@, 500, {"Error deleting recipe"})]
             /\ UNCHANGED table
        ELSE /\ table' = DeleteRow(table, reqs[r].id)
             /\ reqs' = [reqs EXCEPT ![r] = respond(@, 200)]
    /\ UNCHANGED <<lastID, files, fileSeq>>

\* PUT /update-recipe arrives; multer stores the file before the handler runs.
ReceiveUpdate(r) ==
    /\ CanReceive(r)
    /\ \E hasFile \in BOOLEAN :
        LET f == uploaded(hasFile, fileSeq) IN
        /\ reqs' = [reqs EXCEPT ![r] =
               [Idle EXCEPT !.kind = "update", !.pc = "validate", !.file = f]]
        /\ files' = IF hasFile THEN files \cup {f} ELSE files
        /\ fileSeq' = IF hasFile THEN fileSeq + 1 ELSE fileSeq
    /\ UNCHANGED <<table, lastID>>

\* The handler reads req.body; await editRecipe.validate(...): 400 with the
\* mapping of the failed fields from the catch, or the SELECT is issued.
UpdateValidate(r) ==
    /\ reqs[r].kind = "update" /\ reqs[r].pc = "validate"
    /\ \E id \in {NoId} \cup (1..MaxId), title \in EditTexts, recipe \in EditTexts :
        LET failed == editRecipe(id, title, recipe) IN
        reqs' = [reqs EXCEPT ![r] =
            IF failed = {}
            THEN [@ EXCEPT !.pc = "select", !.id = id, !.title = title, !.recipe = recipe]
            ELSE sendErrorResponse([@ EXCEPT !.id = id], 400, failed)]
    /\ UNCHANGED <<table, lastID, files, fileSeq>>

\* The row's thumbnail kept although a new file came.
newThumbnailKeepsOld(rowThumbnail, file) == rowThumbnail

\* let thumbnail = row.thumbnail; if (req.file) thumbnail = req.file.filename
newThumbnail(rowThumbnail, file) == IF file # NoFile THEN file ELSE rowThumbnail

\* Callback of db.get(SELECT thumbnail ...): 500, 404, or, with a new file,
\* deleteFile(oldThumbnailPath) is called, without one the UPDATE is issued.
\* The old thumbnail stays in the local until the unlink has answered.
UpdateSelect(r) ==
    /\ reqs[r].kind = "update" /\ reqs[r].pc = "select"
    /\ \E err \in BOOLEAN :
        reqs' = [reqs EXCEPT ![r] =
            IF err THEN sendErrorResponse(@, 500, {"Error retrieving record"})
            ELSE IF ~Found(table, @.id) THEN sendErrorResponse(@, 404, {"Recipe not found"})
            ELSE [@ EXCEPT !.thumbnail = table[reqs[r].id].thumbnail,
                           !.pc = IF reqs[r].file # NoFile THEN "unlink" ELSE "update"]]
    /\ UNCHANGED <<table, lastID, files, fileSeq>>

\* await deleteFile(oldThumbnailPath) settles inside try/catch: a rejection is
\* logged, and either way the handler goes on to issue the UPDATE.
UpdateUnlinked(r) ==
    /\ reqs[r].kind = "update" /\ reqs[r].pc = "unlinked"
    /\ reqs' = [reqs EXCEPT ![r] = [@ EXCEPT !.pc = "update"]]
    /\ UNCHANGED <<table, lastID, files, fileSeq>>

\* stmt.run(UPDATE ...) and its callback: 500, or the row is read back.
UpdateRun(r) ==
    /\ reqs[r].kind = "update" /\ reqs[r].pc = "update"
    /\ \E err \in BOOLEAN :
        IF err
        THEN /\ reqs' = [reqs EXCEPT ![r] = sendErrorResponse(@, 500, {"Error updating recipe"})]
             /\ UNCHANGED table
        ELSE /\ table' = UpdateRow(table, reqs[r].id, reqs[r].title, reqs[r].recipe,
                                   newThumbnail(reqs[r].thumbnail, reqs[r].file))
             /\ reqs' = [reqs EXCEPT ![r] =
                    [@ EXCEPT !.changes = Changes(table, reqs[r].id), !.pc = "reselect"]]
    /\ UNCHANGED <<lastID, files, fileSeq>>

\* Callback of db.get(SELECT * ...): 500, or 200 with whatever row was read.
UpdateReselect(r) ==
    /\ reqs[r].kind = "update" /\ reqs[r].pc = "reselect"
    /\ \E err \in BOOLEAN :
        reqs' = [reqs EXCEPT ![r] =
            IF err THEN sendErrorResponse(@, 500, {"Error retrieving updated recipe"})
            ELSE respond(@, 200)]
    /\ UNCHANGED <<table, lastID, files, fileSeq>>

\* Any step of the handler of request r after its arrival.
Step(r) ==
    \/ AddValidate(r)
    \/ AddInsert(r)
    \/ AddReselect(r)
    \/ DeleteSelect(r)
    \/ Unlink(r)
    \/ DeleteUnlinked(r)
    \/ DeleteRun(r)
    \/ UpdateValidate(r)
    \/ UpdateSelect(r)
    \/ UpdateUnlinked(r)
    \/ UpdateRun(r)
    \/ UpdateReselect(r)

Next ==
    \E r \in ReqIds :
        \/ ReceiveAdd(r)
        \/ ReceiveDelete(r)
        \/ ReceiveUpdate(r)
        \/ Step(r)

Spec == Init /\ [][Next]_vars

\* The server with at most MaxLiveReqs requests, under the event loop's
\* scheduling: every callback that is due is run.
LiveReqIds == 1..MaxLiveReqs

NextLive ==
    \E r \in LiveReqIds :
        \/ ReceiveAdd(r)
        \/ ReceiveDelete(r)
        \/ ReceiveUpdate(r)
        \/ Step(r)

FairSpec == Init /\ [][NextLive]_vars /\ \A r \in LiveReqIds : WF_vars(Step(r))

----------------------------------------------------------------------------
\* Properties

\* Request r takes a step.
Acted(r) == reqs'[r] # reqs[r]

Answered(r) == reqs[r].pc = "done"

\* An update with a new file whose row is updated and whose old file has not
\* been cleaned up yet.
InCleanupWindow(id) ==
    \E r \in ReqIds :
        /\ reqs[r].kind = "update" /\ reqs[r].id = id /\ reqs[r].file # NoFile
        /\ reqs[r].changes # NotRun /\ reqs[r].unlink = "none"

\* C1: in every reachable state the thumbnail of every row names a file of
\* the thumbnail directory, unless an update of that row is between its row
\* update and its old-file cleanup.
C1_ThumbnailNamesFile ==
    \A id \in DOMAIN table :
        table[id].thumbnail \in files \/ InCleanupWindow(id)

\* The steps of a delete after its SELECT found the row.
C2_Step(r) ==
    reqs[r].kind = "delete" /\ Acted(r) =>
        /\ reqs[r].pc = "unlinked" /\ reqs[r].unlink \in {"ok", "ENOENT"}
               => reqs'[r].pc = "delete"
        /\ reqs[r].pc = "delete" =>
               \/ /\ reqs'[r].status = 200
                  /\ ~Found(table', reqs[r].id)
                  /\ reqs[r].thumbnail \notin files'
               \/ /\ reqs'[r].status = 500
                  /\ reqs'[r].error = {"Error deleting recipe"}
                  /\ table' = table

\* Once a delete has answered 200 its id names no row.
C2_Gone(r) ==
    reqs[r].kind = "delete" /\ Answered(r) /\ reqs[r].status = 200
        => ~Found(table, reqs[r].id)

\* C2: a delete request whose unlink did not fail goes on to the DELETE; its
\* DELETE either fails (500, table untouched) or answers 200 with the row
\* gone and the file of the thumbnail it read gone; after a 200 no row with
\* that id is in the table again.
C2_DeleteRemovesRowAndFile ==
    [][\A r \in ReqIds : C2_Step(r) /\ C2_Gone(r)']_vars

\* A delete has answered 200, its row is gone and the directory is empty.
C2_Witness ==
    \E r \in ReqIds :
        /\ reqs[r].kind = "delete" /\ Answered(r) /\ reqs[r].status = 200
        /\ ~Found(table, reqs[r].id)
        /\ fileSeq > 0 /\ files = {}

\* The steps of an update that carries a new file.
C3_Step(r) ==
    reqs[r].kind = "update" /\ reqs[r].file # NoFile /\ Acted(r) =>
        /\ reqs[r].pc = "unlink" /\ reqs'[r].unlink # "EACCES"
               => reqs[r].thumbnail \notin files'
        /\ reqs[r].pc = "unlinked" => reqs'[r].pc = "update"
        /\ reqs[r].pc = "update" =>
               \/ /\ reqs'[r].pc = "reselect"
                  /\ Found(table, reqs[r].id) =>
                        /\ Found(table', reqs[r].id)
                        /\ table'[reqs[r].id].thumbnail = reqs[r].file
               \/ /\ reqs'[r].status = 500
                  /\ reqs'[r].error = {"Error updating recipe"}
        /\ reqs[r].pc = "reselect" =>
               \/ reqs'[r].status = 200
               \/ /\ reqs'[r].status = 500
                  /\ reqs'[r].error = {"Error retrieving updated recipe"}

\* C3: in an update that carries a new file, the unlink of the old thumbnail
\* removes the file unless it fails; whatever the unlink answered the handler
\* goes on to the UPDATE, which writes the new filename into the row if the
\* row exists; the request then answers 200 unless a statement fails.
C3_NewThumbnailRecorded == [][\A r \in ReqIds : C3_Step(r)]_vars

\* The removal of the old file failed, the old file is still there, the row
\* has the new filename and the handler is about to answer.
C3_Witness ==
    \E r \in ReqIds :
        /\ reqs[r].kind = "update" /\ reqs[r].pc = "reselect"
        /\ reqs[r].unlink = "EACCES" /\ reqs[r].thumbnail \in files
        /\ Found(table, reqs[r].id)
        /\ table[reqs[r].id].thumbnail = reqs[r].file

\* C4: an update of an existing id without a new file in which exactly one of
\* title and recipe is missing or empty is not answered 400.
C4_OneFieldEditAccepted ==
    \A r \in ReqIds :
        /\ reqs[r].kind = "update" /\ Answered(r) /\ reqs[r].file = NoFile
        /\ Found(table, reqs[r].id)
        /\ reqs[r].error \in {{"recipe"}, {"title"}}
        => reqs[r].status # 400

\* C5: an update whose UPDATE statement found no row with its id never
\* answers 200.
C5_UpdateOfMissingRowFails ==
    [][\A r \in ReqIds :
         reqs[r].kind = "update" /\ reqs[r].pc = "reselect" /\ reqs[r].changes = 0
             => reqs'[r].status # 200]_vars

\* C6: every row of the table has a title and a recipe that are neither
\* missing nor empty, and a thumbnail that is not null.
C6_RowsComplete ==
    \A id \in DOMAIN table :
        /\ table[id].title \notin {Undefined, ""}
        /\ table[id].recipe \notin {Undefined, ""}
        /\ table[id].thumbnail # NoFile

\* A row written by an update, after some request was rejected.
C6_Witness ==
    /\ \E id \in DOMAIN table : table[id].title = "Stew"
    /\ \E r \in ReqIds : Answered(r) /\ reqs[r].status = 400

\* C7: in an update that carries a new file, the old file is unlinked only
\* after the row has been updated.
C7_RowUpdateBeforeUnlink ==
    \A r \in ReqIds :
        reqs[r].kind = "update" /\ reqs[r].unlink # "none"
            => reqs[r].changes # NotRun

\* The pcs of a handler once validation has passed, and what a step may send.
Persisting == {"insert", "reselect", "select", "unlinked", "delete", "update"}

C8_Step(r) ==
    /\ reqs'[r].nresp <= 1
    /\ Answered(r)' <=> reqs'[r].nresp = 1
    /\ Answered(r) => ~Acted(r)
    /\ Acted(r) /\ reqs'[r].status = 400
           => reqs[r].pc = "validate" \/ (reqs[r].pc = "idle" /\ reqs'[r].kind = "delete")
    /\ Acted(r) /\ reqs'[r].status \in {200, 201, 500}
           => reqs[r].pc \in Persisting

\* C8: every request that arrived is eventually answered, exactly once; a 400
\* is sent only by the validating step, and a 500, 200 or 201 only by a step
\* after validation has passed.
C8_OneResponse ==
    /\ [][\A r \in ReqIds : C8_Step(r)]_vars
    /\ \A r \in LiveReqIds :
           reqs[r].pc # "idle" ~> (Answered(r) /\ reqs[r].nresp = 1)

\* A request was answered 500 after its file step failed.
C8_Witness ==
    \E r \in ReqIds :
        /\ Answered(r) /\ reqs[r].nresp = 1
        /\ reqs[r].error = {"Error deleting associated file"}

\* The steps of a delete around its unlink.
C9_Step(r) ==
    reqs[r].kind = "delete" /\ Acted(r) =>
        /\ reqs[r].pc \in {"select", "unlink", "unlinked"} => table' = table
        /\ reqs[r].pc = "unlinked" /\ reqs[r].unlink = "EACCES" =>
               /\ reqs'[r].status = 500
               /\ reqs'[r].error = {"Error deleting associated file"}
        /\ reqs[r].pc = "unlinked" /\ reqs[r].unlink = "ENOENT" =>
               reqs'[r].pc = "delete"
        /\ reqs[r].pc = "delete" /\ reqs[r].unlink = "ENOENT" =>
               \/ reqs'[r].status = 200 /\ ~Found(table', reqs[r].id)
               \/ reqs'[r].status = 500 /\ reqs'[r].error = {"Error deleting recipe"}

\* C9: in a delete, an unlink that fails with another error than ENOENT is
\* answered 500 with the table left as it is; an unlink that finds the file
\* missing counts as done: the DELETE is issued and, unless it fails, the row
\* is gone and the answer is 200.
C9_DeleteFileErrors == [][\A r \in ReqIds : C9_Step(r)]_vars

\* The file of an existing row was already missing, and the DELETE is issued.
C9_Witness ==
    \E r \in ReqIds :
        /\ reqs[r].kind = "delete" /\ reqs[r].pc = "delete"
        /\ reqs[r].unlink = "ENOENT" /\ Found(table, reqs[r].id)

\* C10: the file uploaded with a request that was answered 400 or 404 stays
\* in the thumbnail directory and no row names it.
C10_RejectedUploadOrphaned ==
    \A r \in ReqIds :
        Answered(r) /\ reqs[r].status \in {400, 404} /\ reqs[r].file # NoFile =>
            /\ reqs[r].file \in files
            /\ \A id \in DOMAIN table : table[id].thumbnail # reqs[r].file

\* A request with a file was rejected and a later delete has gone through.
C10_Witness ==
    \E r1, r2 \in ReqIds :
        /\ r1 < r2
        /\ Answered(r1) /\ reqs[r1].status \in {400, 404} /\ reqs[r1].file # NoFile
        /\ reqs[r2].kind = "delete" /\ Answered(r2) /\ reqs[r2].status = 200

====
